---- MODULE Spec2Model ----
(***************************************************************************)
(* Model of the real-time core of the trading backend:                     *)
(*   - the price cache of get_yahoo_finance_data (realtime_ai_backend.py), *)
(*   - the ConnectionManager registry and its broadcast fan-out,           *)
(*   - the polling loops live_price_updater / ai_signal_updater,           *)
(*   - the decision rule of generate_ai_signal / TradingAI._make_decision. *)
(*   - the client protocol of websocket_endpoint (backend/app/api),        *)
(*   - the RSI and indicator computations and the price fallback of the    *)
(*     enhanced backend.                                                   *)
(* All coroutines run on one asyncio event loop: a coroutine runs without  *)
(* interruption up to its next suspending await (a websocket send, a       *)
(* websocket receive, asyncio.sleep).  Each action below is one such run.  *)
(***************************************************************************)
EXTENDS Integers, Sequences, FiniteSets, TLC

\* ---------------------------------------------------------------- bounds
TickStep == 5            \* seconds the clock advances per Tick
MaxClock == 15           \* the clock stops advancing here
MaxFetch == 2            \* upstream fetches per symbol
PriceSlice == 2          \* symbols polled per price cycle, TRACKED_SYMBOLS[:5]
SignalSlice == 1         \* symbols per signal cycle, TRACKED_SYMBOLS[:3]
RsiPeriod == 3           \* the period of calculate_rsi (the code passes 14)
MaxMessages == 2         \* payloads a client sends on one websocket

\* ------------------------------------------------------ program constants
CACHE_DURATION == 10

\* The first entries of TRACKED_SYMBOLS.
TRACKED_SYMBOLS == <<"AAPL", "MSFT">>
Symbols == {TRACKED_SYMBOLS[i] : i \in 1..Len(TRACKED_SYMBOLS)}

\* Handlers of GET /api/v1/market/price/{symbol} that may be in progress.
Requests == {"r1", "r2"}

\* What yf.Ticker(symbol).history(...) can produce: an exception (raises),
\* or a sequence of closing prices in thousandths of a dollar (fewer than
\* two rows is too little data).
Histories == {<<175500>>, <<175500, 182300>>, <<182304, 175496>>}
UpstreamOutcomes ==
    {[raises |-> TRUE, hist |-> <<>>]}
        \cup {[raises |-> FALSE, hist |-> h] : h \in Histories}

\* What get_technical_indicators can return: computed from 60 days of
\* history, or the random fallback.  Only rsi and macd are read by the
\* decision; macd is in units of 0.0001.
TechInputs == [rsi : {25, 50, 75}, macd : {-1, 0, 1}]

NoMessage == [type |-> "none"]
NoData == [nodata |-> TRUE]      \* Python None returned by the cache get
NoEntry == [absent |-> TRUE]     \* cache_key not in price_cache

\* Websocket connections; each is accepted at most once.
Conns == {"c1", "c2", "c3"}

\* Handlers of POST /api/v1/trading/execute that may be in progress.
Handlers == {"t1", "t2"}
\* The background tasks created at startup.
Updaters == {"price", "signal"}
\* Every caller of manager.broadcast.
Publishers == Handlers \cup Updaters

VARIABLES
    now,                \* time.time(), in seconds
    price_cache,        \* price_cache: symbol -> NoEntry or [data, timestamp]
    fetchCount,         \* number of ticker.history calls issued per symbol
    req,                \* HTTP handlers of GET /api/v1/market/price/{symbol}
    active_connections, \* manager.active_connections, a list
    peer,               \* client side of each websocket
    endpoint,           \* websocket_endpoint coroutine of each websocket
    bc,                 \* the broadcast call of each publisher
    upd,                \* live_price_updater and ai_signal_updater
    chan,               \* client messages and the endpoint's replies
    inbox,              \* events of the current price cycle each client got
    calc,               \* the last indicator or decision computation
    stream_tasks        \* the start_market_data_stream tasks, oldest first

cacheVars == <<now, price_cache, fetchCount, req>>
registryVars == <<active_connections, peer, endpoint, bc>>
clientVars == <<chan, inbox>>
vars == <<now, price_cache, fetchCount, req, active_connections, peer,
          endpoint, bc, upd, chan, inbox, calc, stream_tasks>>

Range(seq) == {seq[i] : i \in 1..Len(seq)}
Min(a, b) == IF a < b THEN a ELSE b
\* seq[:n]
Slice(seq, n) == SubSeq(seq, 1, Min(n, Len(seq)))

\* ------------------------------------------------------------ arithmetic
\* round(n / d) for d > 0, ties to the even neighbour (Python round()).
RoundDiv(n, d) ==
    LET q == n \div d
        r == n % d
    IN  IF 2 * r < d THEN q
        ELSE IF 2 * r > d THEN q + 1
        ELSE IF q % 2 = 0 THEN q ELSE q + 1

\* Faulty variant of MarketPrice: the change is taken relative to the
\* current price.
MarketPrice_on_current(symbol, hist, t) ==
    LET current_price == hist[Len(hist)]
        previous_price == hist[Len(hist) - 1]
        change == current_price - previous_price
    IN  [symbol |-> symbol,
         price |-> RoundDiv(current_price, 10),
         change |-> RoundDiv(change, 10),
         change_percent |-> RoundDiv(change * 10000, current_price),
         timestamp |-> t]

\* MarketPrice built from the last two closes.  price and change are in
\* cents (round(x, 2)), change_percent in hundredths of a percent
\* (round(change / previous_price * 100, 2)).
MarketPrice(symbol, hist, t) ==
    LET current_price == hist[Len(hist)]
        previous_price == hist[Len(hist) - 1]
        change == current_price - previous_price
    IN  [symbol |-> symbol,
         price |-> RoundDiv(current_price, 10),
         change |-> RoundDiv(change, 10),
         change_percent |-> RoundDiv(change * 10000, previous_price),
         timestamp |-> t]

\* ------------------------------------------------------------ price cache
\* get_yahoo_finance_data(symbol) run at time t against cache, with `up`
\* the outcome of the upstream call should one be issued.  The coroutine
\* has no suspending await, so it runs as one step.
\*   ret     the value returned (a MarketPrice or NoData)
\*   cache   price_cache afterwards
\*   fetched whether ticker.history was called
\* Faulty variant of cache_is_live: an entry whose age equals the TTL still counts.
cache_is_live_inclusive(cache, t, symbol) ==
    /\ cache[symbol] # NoEntry
    /\ t - cache[symbol].timestamp <= CACHE_DURATION

\* cache_key in price_cache and time.time() - timestamp < CACHE_DURATION
cache_is_live(cache, t, symbol) ==
    /\ cache[symbol] # NoEntry
    /\ t - cache[symbol].timestamp < CACHE_DURATION

\* Faulty variant of get_yahoo_finance_data: one cache entry for all
\* symbols.
get_yahoo_finance_data_one_key(cache, t, symbol, up) ==
    IF \E x \in DOMAIN cache : cache_is_live(cache, t, x)
    THEN [ret |-> cache[CHOOSE x \in DOMAIN cache : cache_is_live(cache, t, x)].data,
          cache |-> cache, fetched |-> FALSE]
    ELSE IF ~up.raises /\ Len(up.hist) >= 2
    THEN LET market_price == MarketPrice(symbol, up.hist, t)
         IN  [ret |-> market_price,
              cache |-> [x \in DOMAIN cache |->
                            [data |-> market_price, timestamp |-> t]],
              fetched |-> TRUE]
    ELSE [ret |-> NoData, cache |-> cache, fetched |-> TRUE]

\* Faulty variant of get_yahoo_finance_data: a failed fetch drops the
\* expired entry.
get_yahoo_finance_data_dropping(cache, t, symbol, up) ==
    IF cache_is_live(cache, t, symbol)
    THEN [ret |-> cache[symbol].data, cache |-> cache, fetched |-> FALSE]
    ELSE IF ~up.raises /\ Len(up.hist) >= 2
    THEN LET market_price == MarketPrice(symbol, up.hist, t)
         IN  [ret |-> market_price,
              cache |-> [cache EXCEPT ![symbol] =
                            [data |-> market_price, timestamp |-> t]],
              fetched |-> TRUE]
    ELSE [ret |-> NoData, cache |-> [cache EXCEPT ![symbol] = NoEntry],
          fetched |-> TRUE]

get_yahoo_finance_data(cache, t, symbol, up) ==
    IF cache_is_live(cache, t, symbol)
    THEN [ret |-> cache[symbol].data, cache |-> cache, fetched |-> FALSE]
    ELSE IF up.raises
    THEN [ret |-> NoData, cache |-> cache, fetched |-> TRUE]
    ELSE IF Len(up.hist) >= 2
    THEN LET market_price == MarketPrice(symbol, up.hist, t)
         IN  [ret |-> market_price,
              cache |-> [cache EXCEPT ![symbol] =
                            [data |-> market_price, timestamp |-> t]],
              fetched |-> TRUE]
    ELSE [ret |-> NoData, cache |-> cache, fetched |-> TRUE]

\* ------------------------------------------------------------------ init
IdleRequest ==
    [pc |-> "idle", symbol |-> "", result |-> NoData, outcome |-> "none",
     seen |-> NoEntry, peers |-> {}]

CacheInit ==
    /\ now = 0
    /\ price_cache = [s \in Symbols |-> NoEntry]
    /\ fetchCount = [s \in Symbols |-> 0]
    /\ req = [r \in Requests |-> IdleRequest]

\* A publisher that is not inside manager.broadcast.
\*   pc        "idle", "send" (suspended in await connection.send_text) or
\*             "returned" (broadcast has returned, the caller continues)
\*   idx       position of the list iterator of the for loop
\*   cur       the connection of the pending send_text
\*   dead      dead_connections
\*   sent      the connections send_text was called on, in order
\*   snapshot  the connections registered when broadcast was called
IdleBroadcast ==
    [pc |-> "idle", msg |-> NoMessage, idx |-> 0, cur |-> "", dead |-> <<>>,
     sent |-> <<>>, snapshot |-> {}]

RegistryInit ==
    /\ active_connections = <<>>
    /\ peer = [c \in Conns |-> "absent"]
    /\ endpoint = [c \in Conns |-> "none"]
    /\ bc = [t \in Publishers |-> IdleBroadcast]
    /\ stream_tasks = <<>>

\* An updater in await asyncio.sleep.
\*   pc      "sleep", "fetch" (inside the for loop over the symbols),
\*           "bcast_price", "bcast_portfolio", "bcast_signals"
\*   idx     symbols of this cycle already processed
\*   data    price_updates (symbol -> MarketPrice) or signals (a list)
\*   failed  symbols of this cycle for which the get returned None
\*   erred   an upstream or write error occurred in this cycle
\*   published  the types of the events broadcast in this cycle, in order
SleepingUpdater ==
    [pc |-> "sleep", idx |-> 0, data |-> <<>>, failed |-> {}, erred |-> FALSE,
     published |-> <<>>]

SchedulerInit == upd = [u \in Updaters |-> SleepingUpdater]

\* A websocket on which the client has sent nothing.
\*   inmsg    the payload sent by the client and not yet received
\*   pending  the payload being answered (the endpoint is suspended in the
\*            send_text of send_personal_message)
\*   log      <<payload, reply>> for every payload handled, in order
IdleChannel == [inmsg |-> NoMessage, pending |-> NoMessage, log |-> <<>>]

\* Nothing computed yet.
NoCalc == [fn |-> "none"]

ClientInit ==
    /\ chan = [c \in Conns |-> IdleChannel]
    /\ inbox = [c \in Conns |-> <<>>]
    /\ calc = NoCalc

\* --------------------------------------------------------------- actions
\* Wall-clock time passes.
Tick ==
    /\ now + TickStep <= MaxClock
    /\ now' = now + TickStep
    /\ UNCHANGED <<price_cache, fetchCount, req>>
    /\ UNCHANGED <<registryVars, upd>>
    /\ UNCHANGED <<chan, inbox, calc, stream_tasks>>

\* A request for /api/v1/market/price/{symbol} is accepted: its handler
\* coroutine is scheduled and has not run yet.  peers records the handlers
\* already waiting for the same symbol while the cache holds no live entry
\* for it (the callers this call is concurrent with); seen, set when the
\* handler runs, is the cache entry it found.
RequestArrive(r, s) ==
    /\ req[r].pc = "idle"
    /\ LET live == cache_is_live(price_cache, now, s)
           waiting == {q \in Requests \ {r} :
                          req[q].pc = "pending" /\ req[q].symbol = s}
       IN  req' = [req EXCEPT ![r] =
                      [IdleRequest EXCEPT !.pc = "pending", !.symbol = s,
                                          !.peers = IF live THEN {} ELSE waiting]]
    /\ UNCHANGED <<now, price_cache, fetchCount>>
    /\ UNCHANGED <<registryVars, upd>>
    /\ UNCHANGED <<chan, inbox, calc, stream_tasks>>

\* get_symbol_price runs: price_data = await get_yahoo_finance_data(symbol).
RequestGet(r, up) ==
    /\ req[r].pc = "pending"
    /\ LET s == req[r].symbol
           g == get_yahoo_finance_data(price_cache, now, s, up)
       IN  /\ g.fetched => fetchCount[s] < MaxFetch
           /\ price_cache' = g.cache
           /\ fetchCount' = [fetchCount EXCEPT ![s] = @ + (IF g.fetched THEN 1 ELSE 0)]
           /\ req' = [req EXCEPT ![r].pc = "done",
                                 ![r].result = g.ret,
                                 ![r].seen = price_cache[s],
                                 ![r].outcome =
                                     IF ~g.fetched THEN "hit"
                                     ELSE IF up.raises THEN "exc"
                                     ELSE IF Len(up.hist) >= 2 THEN "ok" ELSE "short"]
    /\ UNCHANGED now
    /\ UNCHANGED <<registryVars, upd>>
    /\ UNCHANGED <<chan, inbox, calc, stream_tasks>>

\* The response is sent (the Quote, or 404 when the result is None).
RequestReturn(r) ==
    /\ req[r].pc = "done"
    /\ req' = [q \in Requests |->
                 IF q = r THEN IdleRequest
                 ELSE [req[q] EXCEPT !.peers = @ \ {r}]]
    /\ UNCHANGED <<now, price_cache, fetchCount>>
    /\ UNCHANGED <<registryVars, upd>>
    /\ UNCHANGED <<chan, inbox, calc, stream_tasks>>

CacheNext ==
    \/ Tick
    \/ \E r \in Requests, s \in Symbols : RequestArrive(r, s)
    \/ \E r \in Requests, up \in UpstreamOutcomes : RequestGet(r, up)
    \/ \E r \in Requests : RequestReturn(r)

Init == CacheInit /\ RegistryInit /\ SchedulerInit /\ ClientInit

CacheSpec == Init /\ [][CacheNext]_vars

\* ------------------------------------------------- connection manager
\* ConnectionManager.disconnect: remove the first occurrence, if any.
disconnect(conns, websocket) ==
    IF websocket \in Range(conns)
    THEN LET i == CHOOSE k \in 1..Len(conns) :
                     /\ conns[k] = websocket
                     /\ \A j \in 1..(k - 1) : conns[j] # websocket
         IN  SubSeq(conns, 1, i - 1) \o SubSeq(conns, i + 1, Len(conns))
    ELSE conns

\* Faulty variant of remove_dead: disconnect without its membership test
\* raises on a connection that is no longer registered, which ends the
\* clean-up loop.
RECURSIVE remove_dead_raising(_, _)
remove_dead_raising(conns, dead) ==
    IF dead = <<>> THEN conns
    ELSE IF Head(dead) \notin Range(conns) THEN conns
    ELSE remove_dead_raising(disconnect(conns, Head(dead)), Tail(dead))

\* for dead_conn in dead_connections: self.disconnect(dead_conn)
RECURSIVE remove_dead(_, _)
remove_dead(conns, dead) ==
    IF dead = <<>> THEN conns
    ELSE remove_dead(disconnect(conns, Head(dead)), Tail(dead))

\* One turn of `for connection in self.active_connections`.  The iterator
\* holds an index into the list itself: it yields the element at idx if
\* there is one and stops otherwise.  On a yield the coroutine suspends in
\* send_text; on stop the dead connections are removed and broadcast
\* returns.
broadcast_next(b, conns) ==
    IF b.idx < Len(conns)
    THEN [bc |-> [b EXCEPT !.pc = "send", !.idx = @ + 1,
                           !.cur = conns[b.idx + 1],
                           !.sent = Append(@, conns[b.idx + 1])],
          conns |-> conns]
    ELSE [bc |-> [b EXCEPT !.pc = "returned", !.cur = ""],
          conns |-> remove_dead(conns, b.dead)]

\* manager.broadcast(message) up to its first suspension.
broadcast_begin(msg, conns) ==
    broadcast_next([IdleBroadcast EXCEPT !.msg = msg,
                                         !.snapshot = Range(conns)], conns)

\* Faulty variant of broadcast_resume: a failed write is retried once.
broadcast_resume_retry(b, conns, raised) ==
    IF raised /\ b.cur \notin Range(b.dead)
    THEN [bc |-> [b EXCEPT !.dead = Append(@, b.cur),
                           !.sent = Append(@, b.cur)],
          conns |-> conns]
    ELSE broadcast_next(b, conns)

\* The pending send_text completes (raised: with an exception) and the
\* coroutine runs on to its next suspension.
broadcast_resume(b, conns, raised) ==
    broadcast_next(IF raised THEN [b EXCEPT !.dead = Append(@, b.cur)] ELSE b,
                   conns)

\* No coroutine other than t is in the middle of a run: the event loop is
\* free to run t.
Running(u) ==
    \/ bc[u].pc = "returned"
    \/ u \in Updaters /\ upd[u].pc = "fetch"
StreamQuiet(k) ==
    \A i \in (1..Len(stream_tasks)) \ {k} :
        stream_tasks[i].pc \notin {"run", "decide"}
Quiescent(t) == (\A u \in Publishers \ {t} : ~Running(u)) /\ StreamQuiet(0)

\* websocket_endpoint: manager.connect(websocket), then await receive_text.
Connect(c) ==
    /\ peer[c] = "absent" /\ endpoint[c] = "none"
    /\ Quiescent(c)
    /\ active_connections' = Append(active_connections, c)
    /\ peer' = [peer EXCEPT ![c] = "ok"]
    /\ endpoint' = [endpoint EXCEPT ![c] = "receive"]
    /\ UNCHANGED <<bc, cacheVars, upd>>
    /\ UNCHANGED <<chan, inbox, calc, stream_tasks>>

\* The client closes its side: later sends raise and the endpoint's
\* receive_text raises WebSocketDisconnect.
ClientClose(c) ==
    /\ peer[c] \in {"ok", "stalled"}
    /\ peer' = [peer EXCEPT ![c] = "gone"]
    /\ UNCHANGED <<active_connections, endpoint, bc, cacheVars, upd>>
    /\ UNCHANGED <<chan, inbox, calc, stream_tasks>>

\* The client stops reading: a send_text to it does not complete.
ClientStall(c) ==
    /\ peer[c] = "ok"
    /\ peer' = [peer EXCEPT ![c] = "stalled"]
    /\ UNCHANGED <<active_connections, endpoint, bc, cacheVars, upd>>
    /\ UNCHANGED <<chan, inbox, calc, stream_tasks>>

\* websocket_endpoint: except WebSocketDisconnect: manager.disconnect(ws).
\* receive_text hands over the payloads that arrived before the close first.
EndpointDisconnect(c) ==
    /\ endpoint[c] = "receive" /\ peer[c] = "gone"
    /\ chan[c].inmsg = NoMessage
    /\ Quiescent(c)
    /\ active_connections' = disconnect(active_connections, c)
    /\ endpoint' = [endpoint EXCEPT ![c] = "done"]
    /\ UNCHANGED <<peer, bc, cacheVars, upd>>
    /\ UNCHANGED <<chan, inbox, calc, stream_tasks>>

\* Faulty variant of deliver: the newest frame overtakes the earlier ones.
deliver_overtaking(box, type) == <<type>> \o box

\* A websocket hands the frames written to it to the client in the order
\* of the send_text calls.
deliver(box, type) == Append(box, type)

\* The send_text a broadcast is suspended in completes or raises.  inbox
\* records what the clients got of the price cycle in progress.
SendDone(t) ==
    /\ bc[t].pc = "send"
    /\ peer[bc[t].cur] \in {"ok", "gone"}
    /\ Quiescent(t)
    /\ LET r == broadcast_resume(bc[t], active_connections,
                                 peer[bc[t].cur] = "gone")
       IN  /\ bc' = [bc EXCEPT ![t] = r.bc]
           /\ active_connections' = r.conns
    /\ inbox' = IF t = "price" /\ peer[bc[t].cur] = "ok"
                THEN [inbox EXCEPT ![bc[t].cur] = deliver(@, bc[t].msg.type)]
                ELSE inbox
    /\ UNCHANGED <<peer, endpoint, cacheVars, upd>>
    /\ UNCHANGED <<chan, calc, stream_tasks>>

\* execute_trade up to its first suspension: the price is looked up; with
\* no price the handler fails (404 turned into 500); with an audience the
\* trade_executed event is broadcast.  trading_active is taken to be True.
TradeStart(h, s, up) ==
    /\ bc[h].pc = "idle"
    /\ Quiescent(h)
    /\ LET g == get_yahoo_finance_data(price_cache, now, s, up)
           r == IF g.ret # NoData /\ Len(active_connections) > 0
                THEN broadcast_begin([type |-> "trade_executed", data |-> g.ret],
                                     active_connections)
                ELSE [bc |-> bc[h], conns |-> active_connections]
       IN  /\ g.fetched => fetchCount[s] < MaxFetch
           /\ price_cache' = g.cache
           /\ fetchCount' = [fetchCount EXCEPT ![s] = @ + (IF g.fetched THEN 1 ELSE 0)]
           /\ bc' = [bc EXCEPT ![h] = r.bc]
           /\ active_connections' = r.conns
    /\ UNCHANGED <<now, req, peer, endpoint, upd>>
    /\ UNCHANGED <<chan, inbox, calc, stream_tasks>>

\* execute_trade after broadcast returned: log and return trade_result.
TradeFinish(h) ==
    /\ bc[h].pc = "returned"
    /\ bc' = [bc EXCEPT ![h] = IdleBroadcast]
    /\ UNCHANGED <<active_connections, peer, endpoint, cacheVars, upd>>
    /\ UNCHANGED <<chan, inbox, calc, stream_tasks>>

BcastNext ==
    \/ \E c \in Conns : Connect(c)
    \/ \E c \in Conns : ClientClose(c)
    \/ \E c \in Conns : ClientStall(c)
    \/ \E c \in Conns : EndpointDisconnect(c)
    \/ \E h \in Handlers : SendDone(h)
    \/ \E h \in Handlers, up \in UpstreamOutcomes :
           TradeStart(h, TRACKED_SYMBOLS[1], up)
    \/ \E h \in Handlers : TradeFinish(h)

\* The registry is explored from the state in which the traded symbol has
\* just been fetched and cached, so that every trade has a price.
BcastInit ==
    LET s1 == TRACKED_SYMBOLS[1]
        q == MarketPrice(s1, <<175500, 182300>>, 0)
    IN  /\ now = 0
        /\ price_cache = [s \in Symbols |->
                             IF s = s1 THEN [data |-> q, timestamp |-> 0]
                             ELSE NoEntry]
        /\ fetchCount = [s \in Symbols |-> IF s = s1 THEN 1 ELSE 0]
        /\ req = [r \in Requests |-> IdleRequest]
        /\ RegistryInit
        /\ SchedulerInit
        /\ ClientInit

BcastSpec == BcastInit /\ [][BcastNext]_vars

\* The event loop runs every coroutine that is ready: a completed send
\* resumes its broadcast, a returned broadcast resumes its caller, and a
\* closed websocket wakes its endpoint.  Clients and incoming requests are
\* under no obligation.
BcastFairness ==
    /\ \A h \in Handlers : WF_vars(SendDone(h)) /\ WF_vars(TradeFinish(h))
    /\ \A c \in Conns : WF_vars(EndpointDisconnect(c))

FairBcastSpec == BcastSpec /\ BcastFairness

\* ------------------------------------------------------ decision engine
\* generate_ai_signal, "Analyze signals": the two scores and the reasoning
\* tags from the quote and the indicators.  change_percent is in hundredths
\* of a percent.
signal_scores(price_data, tech) ==
    LET rsi_buy == tech.rsi < 30
        rsi_sell == ~rsi_buy /\ tech.rsi > 70
        mom_buy == price_data.change_percent > 200
        mom_sell == ~mom_buy /\ price_data.change_percent < -200
        macd_buy == tech.macd > 0
    IN  [buy |-> (IF rsi_buy THEN 2 ELSE 0) + (IF mom_buy THEN 1 ELSE 0)
                    + (IF macd_buy THEN 1 ELSE 0),
         sell |-> (IF rsi_sell THEN 2 ELSE 0) + (IF mom_sell THEN 1 ELSE 0)
                    + (IF macd_buy THEN 0 ELSE 1),
         reasoning |->
            (IF rsi_buy THEN <<"RSI oversold">>
             ELSE IF rsi_sell THEN <<"RSI overbought">> ELSE <<>>)
            \o (IF mom_buy THEN <<"Strong upward momentum">>
                ELSE IF mom_sell THEN <<"Strong downward momentum">> ELSE <<>>)
            \o (IF macd_buy THEN <<"MACD bullish">> ELSE <<"MACD bearish">>)]

\* generate_ai_signal, "Determine action": the signals the call can return.
\* random.choice makes the result a set; confidence is in hundredths.
\* buy_signals and sell_signals are kept in the record for inspection;
\* scored tells whether the scores were computed.
determine_action(symbol, price_data, sc) ==
    LET signal(action, confidence, reasoning) ==
            [symbol |-> symbol, action |-> action, confidence |-> confidence,
             price |-> price_data.price, reasoning |-> reasoning,
             scored |-> TRUE, buy_signals |-> sc.buy, sell_signals |-> sc.sell]
    IN  IF sc.buy > sc.sell
        THEN {signal("buy", Min(95, 60 + sc.buy * 10), sc.reasoning)}
        ELSE IF sc.sell > sc.buy
        THEN {signal("sell", Min(95, 60 + sc.sell * 10), sc.reasoning)}
        ELSE {signal(a, 50, Append(sc.reasoning, "Mixed signals")) :
                 a \in {"buy", "sell"}}

\* generate_ai_signal(symbol), given the quote returned by the cache get and
\* the indicators returned by get_technical_indicators.
generate_ai_signal(symbol, price_data, tech) ==
    IF price_data = NoData
    THEN {[symbol |-> symbol, action |-> a, confidence |-> 50, price |-> 10000,
           reasoning |-> <<"Data unavailable">>,
           scored |-> FALSE, buy_signals |-> 0, sell_signals |-> 0] :
             a \in {"buy", "sell"}}
    ELSE determine_action(symbol, price_data, signal_scores(price_data, tech))

\* ------------------------------------------------------------ poll loops
PriceSymbols == Slice(TRACKED_SYMBOLS, PriceSlice)
SignalSymbols == Slice(TRACKED_SYMBOLS, SignalSlice)

\* Faulty variant of price_step: a symbol without a quote ends the for loop.
price_step_break(st, symbol, price_data) ==
    IF price_data = NoData
    THEN [st EXCEPT !.idx = Len(PriceSymbols),
                    !.failed = @ \cup {symbol}, !.erred = TRUE]
    ELSE [st EXCEPT !.idx = @ + 1,
                    !.data = [x \in DOMAIN @ \cup {symbol} |->
                                 IF x = symbol THEN price_data ELSE @[x]]]

\* Faulty variant of price_step: a symbol without a quote is tried again
\* before the loop moves on.
price_step_retry(st, symbol, price_data) ==
    IF price_data = NoData
    THEN [st EXCEPT !.failed = @ \cup {symbol}, !.erred = TRUE]
    ELSE [st EXCEPT !.idx = @ + 1,
                    !.data = [x \in DOMAIN @ \cup {symbol} |->
                                 IF x = symbol THEN price_data ELSE @[x]]]

\* `if price_data: price_updates[symbol] = price_data.dict()`: one turn of
\* the for loop of live_price_updater.  The get returns None on every
\* failure and nothing else in the loop raises, so the loop always goes on
\* to the next symbol.
price_step(st, symbol, price_data) ==
    [st EXCEPT !.idx = @ + 1,
               !.data = IF price_data = NoData THEN @
                        ELSE [x \in DOMAIN @ \cup {symbol} |->
                                 IF x = symbol THEN price_data ELSE @[x]],
               !.failed = IF price_data = NoData THEN @ \cup {symbol} ELSE @,
               !.erred = @ \/ price_data = NoData]

\* A cycle begins: asyncio.sleep returns and the audience test runs.
UpdaterWake(u) ==
    /\ upd[u].pc = "sleep"
    /\ Quiescent(u)
    /\ upd' = [upd EXCEPT ![u] =
                  IF Len(active_connections) > 0
                  THEN [SleepingUpdater EXCEPT !.pc = "fetch"]
                  ELSE SleepingUpdater]
    /\ UNCHANGED <<cacheVars, registryVars>>
    /\ UNCHANGED <<chan, inbox, calc, stream_tasks>>

\* live_price_updater: one symbol of the cycle; after the last one the
\* price_update event is broadcast if any price was obtained, and the
\* portfolio_update event otherwise.  The positions are not modelled.
PriceFetch(up) ==
    LET u == "price"
        s == PriceSymbols[upd[u].idx + 1]
        g == get_yahoo_finance_data(price_cache, now, s, up)
        st == price_step(upd[u], s, g.ret)
        r == IF DOMAIN st.data # {}
             THEN broadcast_begin([type |-> "price_update", data |-> st.data],
                                  active_connections)
             ELSE broadcast_begin([type |-> "portfolio_update", data |-> <<>>],
                                  active_connections)
    IN  /\ upd[u].pc = "fetch"
        /\ g.fetched => fetchCount[s] < MaxFetch
        /\ price_cache' = g.cache
        /\ fetchCount' = [fetchCount EXCEPT ![s] = @ + (IF g.fetched THEN 1 ELSE 0)]
        /\ IF st.idx < Len(PriceSymbols)
           THEN /\ upd' = [upd EXCEPT ![u] = st]
                /\ UNCHANGED <<active_connections, bc>>
           ELSE /\ upd' = [upd EXCEPT ![u] =
                              [st EXCEPT !.pc = IF DOMAIN st.data # {}
                                                THEN "bcast_price"
                                                ELSE "bcast_portfolio",
                                         !.published = <<r.bc.msg.type>>]]
                /\ bc' = [bc EXCEPT ![u] = r.bc]
                /\ active_connections' = r.conns
        /\ UNCHANGED <<now, req, peer, endpoint>>
        /\ UNCHANGED <<chan, inbox, calc, stream_tasks>>

\* ai_signal_updater: one symbol of the cycle; after the last one the
\* ai_signals_update event is broadcast.
SignalFetch(up, tech) ==
    LET u == "signal"
        s == SignalSymbols[upd[u].idx + 1]
        g == get_yahoo_finance_data(price_cache, now, s, up)
    IN  /\ upd[u].pc = "fetch"
        /\ g.fetched => fetchCount[s] < MaxFetch
        /\ price_cache' = g.cache
        /\ fetchCount' = [fetchCount EXCEPT ![s] = @ + (IF g.fetched THEN 1 ELSE 0)]
        /\ \E signal \in generate_ai_signal(s, g.ret, tech) :
              LET st == [upd[u] EXCEPT !.idx = @ + 1,
                                       !.data = Append(@, signal),
                                       !.failed = IF g.ret = NoData
                                                  THEN @ \cup {s} ELSE @,
                                       !.erred = @ \/ g.ret = NoData]
                  r == broadcast_begin([type |-> "ai_signals_update",
                                        data |-> st.data], active_connections)
              IN  IF st.idx < Len(SignalSymbols)
                  THEN /\ upd' = [upd EXCEPT ![u] = st]
                       /\ UNCHANGED <<active_connections, bc>>
                  ELSE /\ upd' = [upd EXCEPT ![u] =
                                     [st EXCEPT !.pc = "bcast_signals",
                                                !.published = <<r.bc.msg.type>>]]
                       /\ bc' = [bc EXCEPT ![u] = r.bc]
                       /\ active_connections' = r.conns
        /\ UNCHANGED <<now, req, peer, endpoint>>
        /\ UNCHANGED <<chan, inbox, calc, stream_tasks>>

\* A broadcast of an updater has returned.  After price_update the price
\* loop goes on to broadcast portfolio_update; after the last broadcast of
\* the cycle the updater sleeps.
UpdaterResume(u) ==
    /\ bc[u].pc = "returned"
    /\ LET erred == upd[u].erred \/ bc[u].dead # <<>>
           r == broadcast_begin([type |-> "portfolio_update", data |-> <<>>],
                                active_connections)
       IN  IF upd[u].pc = "bcast_price"
           THEN /\ upd' = [upd EXCEPT ![u].pc = "bcast_portfolio",
                                      ![u].erred = erred,
                                      ![u].published = Append(@, r.bc.msg.type)]
                /\ bc' = [bc EXCEPT ![u] = r.bc]
                /\ active_connections' = r.conns
           ELSE /\ upd' = [upd EXCEPT ![u].pc = "sleep", ![u].erred = erred]
                /\ bc' = [bc EXCEPT ![u] = IdleBroadcast]
                /\ UNCHANGED active_connections
    /\ inbox' = IF u = "price" /\ upd[u].pc # "bcast_price"
                THEN [c \in Conns |-> <<>>] ELSE inbox
    /\ UNCHANGED <<cacheVars, peer, endpoint>>
    /\ UNCHANGED <<chan, calc, stream_tasks>>

\* The connections the poll loops are explored with.
SchedConns == {"c1", "c2"}

\* live_price_updater with its audience.
SchedNext ==
    \/ Tick
    \/ \E c \in SchedConns : Connect(c)
    \/ \E c \in SchedConns : ClientClose(c)
    \/ \E c \in SchedConns : ClientStall(c)
    \/ \E c \in SchedConns : EndpointDisconnect(c)
    \/ UpdaterWake("price")
    \/ \E up \in UpstreamOutcomes : PriceFetch(up)
    \/ SendDone("price")
    \/ UpdaterResume("price")

SchedSpec == Init /\ [][SchedNext]_vars

\* The event loop runs every coroutine that is ready, and asyncio.sleep
\* returns.
SchedFairness ==
    /\ WF_vars(UpdaterWake("price"))
    /\ WF_vars(\E up \in UpstreamOutcomes : PriceFetch(up))
    /\ WF_vars(SendDone("price"))
    /\ WF_vars(UpdaterResume("price"))
    /\ \A c \in SchedConns : WF_vars(EndpointDisconnect(c))

FairSchedSpec == SchedSpec /\ SchedFairness

\* ai_signal_updater with its audience.
SignalNext ==
    \/ \E c \in SchedConns : Connect(c)
    \/ \E c \in SchedConns : ClientClose(c)
    \/ \E c \in SchedConns : ClientStall(c)
    \/ \E c \in SchedConns : EndpointDisconnect(c)
    \/ UpdaterWake("signal")
    \/ \E up \in UpstreamOutcomes, tech \in TechInputs : SignalFetch(up, tech)
    \/ SendDone("signal")
    \/ UpdaterResume("signal")

SignalSpec == Init /\ [][SignalNext]_vars

\* Both poll loops and a trade handler against one audience, from the state
\* in which the first symbol is cached, on one value of the indicators.
OrderNext ==
    \/ \E c \in SchedConns : Connect(c)
    \/ \E c \in SchedConns : ClientClose(c)
    \/ \E c \in SchedConns : EndpointDisconnect(c)
    \/ \E u \in Updaters : UpdaterWake(u)
    \/ \E up \in UpstreamOutcomes : PriceFetch(up)
    \/ \E up \in UpstreamOutcomes, tech \in {x \in TechInputs : x.rsi = 50 /\ x.macd = 1} :
           SignalFetch(up, tech)
    \/ \E t \in Updaters \cup {"t1"} : SendDone(t)
    \/ \E u \in Updaters : UpdaterResume(u)
    \/ \E up \in UpstreamOutcomes : TradeStart("t1", TRACKED_SYMBOLS[1], up)
    \/ TradeFinish("t1")

OrderSpec == BcastInit /\ [][OrderNext]_vars

\* ------------------------------------------ market-data stream (/ws)
\* The symbols start_market_data_stream walks through (two of its five).
watchlist == <<"AAPL", "MSFT">>

\* A stream task that asyncio.create_task has just scheduled.
\*   pc    "wait" (scheduled, or in asyncio.sleep), "run" (in the for loop,
\*         between two symbols), "send_market" and "send_alert" (suspended
\*         in a broadcast), "decide" (about to call make_trading_decision)
\*   idx   symbols of this cycle already processed
\*   b     the broadcast call in progress
NewStream == [pc |-> "wait", idx |-> 0, b |-> IdleBroadcast]

\* websocket_endpoint of /ws (backend/app): manager.connect(websocket),
\* then `if len(manager.active_connections) == 1:` a task running
\* start_market_data_stream is created.  That coroutine is `while True`
\* around a try that catches every Exception, and nothing cancels the task:
\* a stream task, once created, stays.
WsConnect(c) ==
    /\ peer[c] = "absent" /\ endpoint[c] = "none"
    /\ Quiescent(c)
    /\ active_connections' = Append(active_connections, c)
    /\ stream_tasks' = IF Len(active_connections') = 1
                       THEN Append(stream_tasks, NewStream) ELSE stream_tasks
    /\ peer' = [peer EXCEPT ![c] = "ok"]
    /\ endpoint' = [endpoint EXCEPT ![c] = "receive"]
    /\ UNCHANGED <<bc, cacheVars, upd>>
    /\ UNCHANGED <<chan, inbox, calc>>

\* The event loop can run stream task k.
StreamReady(k) == (\A u \in Publishers : ~Running(u)) /\ StreamQuiet(k)

\* start_market_data_stream, one turn of `for symbol in watchlist`, up to
\* the next suspension or the next symbol: after the last symbol the task
\* sleeps 30 seconds; with no connection the symbol is passed over; else
\* get_current_price goes upstream (it has no cache) and either raises,
\* which is logged, or its quote is broadcast by send_market_update.
\* analysed: hash(symbol) % 5 == 0, which differs from process to process.
StreamStep(k, raises, analysed) ==
    LET t == stream_tasks[k]
        s == watchlist[t.idx + 1]
        r == broadcast_begin([type |-> "market_update", symbol |-> s,
                              analysed |-> analysed], active_connections)
    IN  /\ k <= Len(stream_tasks)
        /\ t.pc \in {"wait", "run"}
        /\ StreamReady(k)
        /\ IF t.idx = Len(watchlist)
           THEN /\ stream_tasks' = [stream_tasks EXCEPT ![k] = NewStream]
                /\ UNCHANGED <<fetchCount, active_connections>>
           ELSE IF active_connections = <<>>
           THEN /\ stream_tasks' = [stream_tasks EXCEPT ![k].pc = "run",
                                                        ![k].idx = @ + 1]
                /\ UNCHANGED <<fetchCount, active_connections>>
           ELSE /\ fetchCount[s] < MaxFetch
                /\ fetchCount' = [fetchCount EXCEPT ![s] = @ + 1]
                /\ IF raises
                   THEN /\ stream_tasks' = [stream_tasks EXCEPT
                                               ![k].pc = "run", ![k].idx = @ + 1]
                        /\ UNCHANGED active_connections
                   ELSE /\ stream_tasks' = [stream_tasks EXCEPT
                                               ![k].pc = "send_market",
                                               ![k].b = r.bc]
                        /\ active_connections' = r.conns
        /\ UNCHANGED <<now, price_cache, req, peer, endpoint, bc, upd>>
        /\ UNCHANGED <<chan, inbox, calc>>

\* The send_text a broadcast of the stream is suspended in completes or
\* raises.  When send_market_update has returned the task goes on to the
\* AI analysis if the symbol is one of the analysed ones, and otherwise to
\* asyncio.sleep(2); when send_ai_alert has returned, to asyncio.sleep(2).
StreamSendDone(k) ==
    LET t == stream_tasks[k]
        r == broadcast_resume(t.b, active_connections, peer[t.b.cur] = "gone")
    IN  /\ k <= Len(stream_tasks)
        /\ t.pc \in {"send_market", "send_alert"}
        /\ peer[t.b.cur] \in {"ok", "gone"}
        /\ StreamReady(k)
        /\ active_connections' = r.conns
        /\ stream_tasks' = [stream_tasks EXCEPT ![k] =
              IF r.bc.pc = "send" THEN [t EXCEPT !.b = r.bc]
              ELSE IF t.pc = "send_market" /\ t.b.msg.analysed
              THEN [t EXCEPT !.pc = "decide", !.b = IdleBroadcast]
              ELSE [t EXCEPT !.pc = "wait", !.idx = @ + 1,
                             !.b = IdleBroadcast]]
        /\ UNCHANGED <<cacheVars, peer, endpoint, bc, upd>>
        /\ UNCHANGED <<chan, inbox, calc>>

\* `ai_decision = await self.trading_ai.make_trading_decision(symbol)`:
\* analyze_symbol begins with get_current_price, which goes upstream.  A
\* decision with confidence above 0.7 is broadcast by send_ai_alert; an
\* exception is logged.  Then asyncio.sleep(2).
StreamDecide(k, raises, confident) ==
    LET t == stream_tasks[k]
        s == watchlist[t.idx + 1]
        r == broadcast_begin([type |-> "ai_alert", symbol |-> s,
                              analysed |-> TRUE], active_connections)
    IN  /\ k <= Len(stream_tasks)
        /\ t.pc = "decide"
        /\ StreamReady(k)
        /\ fetchCount[s] < MaxFetch
        /\ fetchCount' = [fetchCount EXCEPT ![s] = @ + 1]
        /\ IF ~raises /\ confident /\ r.bc.pc = "send"
           THEN /\ stream_tasks' = [stream_tasks EXCEPT ![k].pc = "send_alert",
                                                        ![k].b = r.bc]
                /\ active_connections' = r.conns
           ELSE /\ stream_tasks' = [stream_tasks EXCEPT ![k].pc = "wait",
                                                        ![k].idx = @ + 1]
                /\ UNCHANGED active_connections
        /\ UNCHANGED <<now, price_cache, req, peer, endpoint, bc, upd>>
        /\ UNCHANGED <<chan, inbox, calc>>

\* A task is created by a connecting client, so there are never more
\* tasks than clients.
StreamIds == 1..Cardinality(SchedConns)

\* The /ws endpoint of backend/app with its clients coming and going, and
\* the stream tasks it starts.
StreamNext ==
    \/ \E c \in SchedConns : WsConnect(c)
    \/ \E c \in SchedConns : ClientClose(c)
    \/ \E c \in SchedConns : EndpointDisconnect(c)
    \/ \E k \in StreamIds, raises, analysed \in BOOLEAN :
           StreamStep(k, raises, analysed)
    \/ \E k \in StreamIds : StreamSendDone(k)
    \/ \E k \in StreamIds, raises, confident \in BOOLEAN :
           StreamDecide(k, raises, confident)

StreamSpec == Init /\ [][StreamNext]_vars

\* ------------------------------------------------------ client protocol
\* websocket_endpoint of backend/app/api/endpoints/websocket.py, whose
\* ConnectionManager (backend/app/core/websocket.py) is the one above.
\* Text frames a client can send: JSON objects with a type, JSON that is
\* not an object, and text that is not JSON.
ClientPayloads ==
    {[json |-> TRUE, object |-> TRUE, type |-> "subscribe", symbols |-> <<"AAPL">>],
     [json |-> TRUE, object |-> TRUE, type |-> "subscribe",
      symbols |-> <<"MSFT", "AAPL">>],
     [json |-> TRUE, object |-> TRUE, type |-> "ping", symbols |-> <<>>],
     [json |-> TRUE, object |-> TRUE, type |-> "unsubscribe", symbols |-> <<>>],
     [json |-> TRUE, object |-> FALSE, type |-> "", symbols |-> <<>>],
     [json |-> FALSE, object |-> FALSE, type |-> "", symbols |-> <<>>]}

\* Faulty variant of handle_message: the confirmation does not carry the
\* symbols, and a ping is answered by a confirmation too.
handle_message_no_echo(m) ==
    IF ~m.json THEN [type |-> "error", message |-> "Invalid JSON"]
    ELSE IF ~m.object THEN [type |-> "error", message |-> "AttributeError"]
    ELSE IF m.type \in {"subscribe", "ping"}
    THEN [type |-> "subscription_confirmed", symbols |-> <<>>]
    ELSE NoMessage

\* The body of the receive loop: the reply to payload m, NoMessage for
\* none.  json.loads raises JSONDecodeError on text that is not JSON, and
\* message.get raises AttributeError on JSON that is not an object.
handle_message(m) ==
    IF ~m.json THEN [type |-> "error", message |-> "Invalid JSON"]
    ELSE IF ~m.object THEN [type |-> "error", message |-> "AttributeError"]
    ELSE IF m.type = "subscribe"
    THEN [type |-> "subscription_confirmed", symbols |-> m.symbols]
    ELSE IF m.type = "ping" THEN [type |-> "pong"]
    ELSE NoMessage

\* ConnectionManager.send_personal_message: the registry afterwards.  An
\* exception of send_text is logged and nothing else happens.
send_personal_message(conns, websocket, raised) == conns

\* The client writes a text frame.
ClientSend(c, m) ==
    /\ peer[c] = "ok" /\ endpoint[c] \in {"receive", "reply"}
    /\ chan[c].inmsg = NoMessage
    /\ Len(chan[c].log) + (IF chan[c].pending = NoMessage THEN 0 ELSE 1)
          < MaxMessages
    /\ chan' = [chan EXCEPT ![c].inmsg = m]
    /\ UNCHANGED <<cacheVars, registryVars, upd, inbox, calc, stream_tasks>>

\* receive_text returns a payload; the endpoint handles it and, if there
\* is a reply, suspends in its send_text.
EndpointReceive(c) ==
    /\ endpoint[c] = "receive"
    /\ chan[c].inmsg # NoMessage
    /\ Quiescent(c)
    /\ LET m == chan[c].inmsg
           reply == handle_message(m)
       IN  IF reply = NoMessage
           THEN /\ chan' = [chan EXCEPT
                              ![c].inmsg = NoMessage,
                              ![c].log = Append(@, [payload |-> m,
                                                    reply |-> reply,
                                                    failed |-> FALSE])]
                /\ UNCHANGED endpoint
           ELSE /\ chan' = [chan EXCEPT ![c].inmsg = NoMessage,
                                        ![c].pending = m]
                /\ endpoint' = [endpoint EXCEPT ![c] = "reply"]
    /\ UNCHANGED <<cacheVars, active_connections, peer, bc, upd, inbox, calc, stream_tasks>>

\* The send_text of the reply completes or raises, send_personal_message
\* returns and the endpoint goes back to receive_text.
ReplyDone(c) ==
    /\ endpoint[c] = "reply"
    /\ peer[c] \in {"ok", "gone"}
    /\ Quiescent(c)
    /\ LET m == chan[c].pending
           raised == peer[c] = "gone"
       IN  /\ chan' = [chan EXCEPT
                         ![c].pending = NoMessage,
                         ![c].log = Append(@, [payload |-> m,
                                               reply |-> handle_message(m),
                                               failed |-> raised])]
           /\ active_connections' =
                  send_personal_message(active_connections, c, raised)
    /\ endpoint' = [endpoint EXCEPT ![c] = "receive"]
    /\ UNCHANGED <<cacheVars, peer, bc, upd, inbox, calc, stream_tasks>>

\* The connections the client protocol is explored with, and the ones
\* whose client sends payloads.
ClientConns == {"c1", "c2"}
Senders == {"c1"}

ClientNext ==
    \/ \E c \in ClientConns : Connect(c)
    \/ \E c \in ClientConns : ClientClose(c)
    \/ \E c \in ClientConns : ClientStall(c)
    \/ \E c \in ClientConns : EndpointDisconnect(c)
    \/ \E c \in Senders, m \in ClientPayloads : ClientSend(c, m)
    \/ \E c \in Senders : EndpointReceive(c)
    \/ \E c \in Senders : ReplyDone(c)

ClientSpec == Init /\ [][ClientNext]_vars

\* ------------------------------------------ TradingAI (backend/app/ai)
\* The part of the analysis dict that _calculate_confidence and
\* _make_decision read.  news_score is the mean article polarity in
\* hundredths, volatility is in percent.
Analyses ==
    [rsi : {"oversold", "overbought", "neutral"},
     macd_bullish : BOOLEAN,
     volume_spike : BOOLEAN,
     trend : {"bullish", "bearish", "sideways"},
     news_score : {-30, -15, 0, 15, 30},
     volatility : {20, 25, 30, 40, 45}]

\* _analyze_news_sentiment: "overall" from the mean polarity.
news_overall(score) ==
    IF score > 10 THEN "positive" ELSE IF score < -10 THEN "negative"
    ELSE "neutral"

\* round(n / d, 0) as Python computes it on floats: to the nearest integer,
\* and to either neighbour when n / d lies exactly half way (the binary
\* value of the product decides).
RoundSet(n, d) ==
    LET q == n \div d
        r == n % d
    IN  IF 2 * r < d THEN {q} ELSE IF 2 * r > d THEN {q + 1} ELSE {q, q + 1}

Max(a, b) == IF a > b THEN a ELSE b
Abs(x) == IF x < 0 THEN -x ELSE x

\* sum(confidence_factors), in thousandths.
confidence_factors(a) ==
    (IF a.rsi \in {"oversold", "overbought"} THEN 300 ELSE 0)
    + (IF a.macd_bullish THEN 200 ELSE 0)
    + (IF a.volume_spike THEN 150 ELSE 0)
    + (IF a.trend \in {"bullish", "bearish"} THEN 200 ELSE 0)
    + (IF Abs(a.news_score) > 20 THEN 150 ELSE 0)

\* Faulty variant of calculate_confidence: high volatility divides instead
\* of multiplying, and the result is not clamped.
calculate_confidence_unclamped(a) ==
    LET base == confidence_factors(a)
    IN  IF a.volatility > 40 THEN RoundSet(base * 10, 7)
        ELSE IF a.volatility > 25 THEN RoundSet(base * 100, 85)
        ELSE {base}

\* Faulty variant of calculate_confidence: the volatility tiers include
\* their lower limits.
calculate_confidence_inclusive(a) ==
    LET base == Min(confidence_factors(a), 1000)
        scaled == IF a.volatility >= 40 THEN RoundSet(base * 7, 10)
                  ELSE IF a.volatility >= 25 THEN RoundSet(base * 85, 100)
                  ELSE {base}
    IN  {Min(Max(x, 0), 1000) : x \in scaled}

\* TradingAI._calculate_confidence: the values it can return, in
\* thousandths (round(..., 3)).
calculate_confidence(a) ==
    LET base == Min(confidence_factors(a), 1000)
        scaled == IF a.volatility > 40 THEN RoundSet(base * 7, 10)
                  ELSE IF a.volatility > 25 THEN RoundSet(base * 85, 100)
                  ELSE {base}
    IN  {Min(Max(x, 0), 1000) : x \in scaled}

\* TradingAI._make_decision(analysis, confidence), confidence in
\* thousandths.  The suggested quantity is left out.
make_decision(a, confidence) ==
    LET overall == news_overall(a.news_score)
        buy_signals == (IF a.rsi = "oversold" THEN 2 ELSE 0)
                       + (IF a.macd_bullish THEN 1 ELSE 0)
                       + (IF a.trend = "bullish" THEN 1 ELSE 0)
                       + (IF overall = "positive" THEN 1 ELSE 0)
        sell_signals == (IF a.rsi = "overbought" THEN 2 ELSE 0)
                        + (IF a.trend = "bearish" THEN 1 ELSE 0)
                        + (IF overall = "negative" THEN 1 ELSE 0)
        action == IF buy_signals > sell_signals /\ confidence >= 500 THEN "buy"
                  ELSE IF sell_signals > buy_signals /\ confidence >= 500
                  THEN "sell" ELSE "hold"
    IN  [action |-> action,
         risk_level |-> IF action = "hold" THEN "low"
                        ELSE IF confidence > 800 THEN "low" ELSE "medium",
         buy_signals |-> buy_signals,
         sell_signals |-> sell_signals]

\* TradingAI.make_trading_decision on an analysis that was obtained.
\* unit is the value of confidence 1.0.
MakeTradingDecision(a) ==
    /\ calc = NoCalc
    /\ \E confidence \in calculate_confidence(a) :
          LET d == make_decision(a, confidence)
          IN  calc' = [fn |-> "make_trading_decision", input |-> a,
                       out |-> [action |-> d.action, confidence |-> confidence,
                                scored |-> TRUE,
                                buy_signals |-> d.buy_signals,
                                sell_signals |-> d.sell_signals],
                       unit |-> 1000]
    /\ UNCHANGED <<cacheVars, registryVars, upd, chan, inbox, stream_tasks>>

\* The quotes generate_ai_signal can be given.
SignalQuotes ==
    {MarketPrice(TRACKED_SYMBOLS[1], h, 0) : h \in {x \in Histories : Len(x) >= 2}}
        \cup {NoData}

\* generate_ai_signal (realtime_ai_backend) called on its own, as
\* GET /api/v1/trading/ai-signals does.
GenerateSignal(price_data, tech) ==
    /\ calc = NoCalc
    /\ \E signal \in generate_ai_signal(TRACKED_SYMBOLS[1], price_data, tech) :
          calc' = [fn |-> "generate_ai_signal",
                   input |-> [price_data |-> price_data, tech |-> tech],
                   out |-> [action |-> signal.action,
                            confidence |-> signal.confidence,
                            scored |-> signal.scored,
                            buy_signals |-> signal.buy_signals,
                            sell_signals |-> signal.sell_signals],
                   unit |-> 100]
    /\ UNCHANGED <<cacheVars, registryVars, upd, chan, inbox, stream_tasks>>

\* ------------------------------------------------------------ indicators
\* Closing prices the indicator computations are explored on.
PriceLevels == {100, 101, 102}
RECURSIVE SeqsOfLen(_)
SeqsOfLen(n) ==
    IF n = 0 THEN {<<>>}
    ELSE {Append(h, x) : h \in SeqsOfLen(n - 1), x \in PriceLevels}
\* hist['Close'] of ticker.history: windows around the RSI period.
CloseSeries == SeqsOfLen(RsiPeriod - 1) \cup SeqsOfLen(RsiPeriod)
                  \cup SeqsOfLen(RsiPeriod + 1)

\* The rows get_technical_indicators asks for before it computes (the code
\* asks for 50, with the RSI period 14).
MIN_ROWS == RsiPeriod + 1

RECURSIVE SumSeq(_)
SumSeq(seq) == IF seq = <<>> THEN 0 ELSE Head(seq) + SumSeq(Tail(seq))

\* prices.diff() without its first (undefined) entry.
Changes(prices) == [i \in 1..(Len(prices) - 1) |-> prices[i + 1] - prices[i]]

\* seq[-n:]
LastN(seq, n) == SubSeq(seq, Max(1, Len(seq) - n + 1), Len(seq))

\* Sum of the gains and of the losses over the last `period` changes; the
\* averages are these sums divided by period.
window_gain(prices, period) ==
    LET w == LastN(Changes(prices), period)
    IN  SumSeq([i \in 1..Len(w) |-> IF w[i] > 0 THEN w[i] ELSE 0])
window_loss(prices, period) ==
    LET w == LastN(Changes(prices), period)
    IN  SumSeq([i \in 1..Len(w) |-> IF w[i] > 0 THEN 0 ELSE -w[i]])

\* An RSI value: the exact fraction num / den, or NaN.
RsiValue(num, den) == [kind |-> "num", num |-> num, den |-> den]
NaN == [kind |-> "nan", num |-> 0, den |-> 1]

\* calculate_rsi of ai_trading_backend.py (plain lists).
calculate_rsi_list(prices, period) ==
    LET avg_gain == window_gain(prices, period)
        avg_loss == window_loss(prices, period)
    IN  IF Len(prices) < period THEN RsiValue(50, 1)
        ELSE IF avg_loss = 0 THEN RsiValue(100, 1)
        ELSE RsiValue(100 * avg_gain, avg_gain + avg_loss)

\* calculate_rsi of realtime_ai_backend.py (pandas): rolling means of the
\* gains and losses, rs = gain / loss in floating point (x / 0 is inf for
\* x > 0 and NaN for x = 0), rsi = 100 - 100 / (1 + rs), last entry.
calculate_rsi(prices, period) ==
    LET gain == window_gain(prices, period)
        loss == window_loss(prices, period)
    IN  IF Len(prices) < period THEN NaN
        ELSE IF loss = 0 THEN (IF gain = 0 THEN NaN ELSE RsiValue(100, 1))
        ELSE RsiValue(100 * gain, gain + loss)

\* calculate_rsi is applied to a series of closes.
CalculateRsi(impl, prices) ==
    /\ calc = NoCalc
    /\ calc' = [fn |-> "calculate_rsi", impl |-> impl, input |-> prices,
                avg_gain |-> window_gain(prices, RsiPeriod),
                avg_loss |-> window_loss(prices, RsiPeriod),
                out |-> IF impl = "list"
                        THEN calculate_rsi_list(prices, RsiPeriod)
                        ELSE calculate_rsi(prices, RsiPeriod)]
    /\ UNCHANGED <<cacheVars, registryVars, upd, chan, inbox, stream_tasks>>

\* The explicit result for a history that is too short.
InsufficientHistory == [insufficient |-> TRUE]

\* Values random.uniform(30, 70) can give, in hundredths.
RandomRsi == {3000, 5000, 7000}

\* round(rsi, 2), in hundredths; NaN stays NaN.
round_rsi(v) ==
    IF v.kind = "nan" THEN v ELSE RsiValue(RoundDiv(v.num * 100, v.den), 100)

\* get_technical_indicators of realtime_ai_backend.py on the outcome of
\* ticker.history(period="60d"): the set of results it can return.  Only
\* the rsi field is modelled; simulated tells the random fallback.
get_technical_indicators(raises, closes) ==
    IF ~raises /\ Len(closes) >= MIN_ROWS
    THEN {[insufficient |-> FALSE, simulated |-> FALSE,
           rsi |-> round_rsi(calculate_rsi(closes, RsiPeriod))]}
    ELSE {[insufficient |-> FALSE, simulated |-> TRUE, rsi |-> RsiValue(r, 100)] :
             r \in RandomRsi}

GetTechnicalIndicators(raises, closes) ==
    /\ calc = NoCalc
    /\ \E ind \in get_technical_indicators(raises, closes) :
          calc' = [fn |-> "get_technical_indicators",
                   input |-> [raises |-> raises, closes |-> closes],
                   out |-> ind]
    /\ UNCHANGED <<cacheVars, registryVars, upd, chan, inbox, stream_tasks>>

\* ------------------------------------- enhanced_ai_trading_backend.py
\* A MarketPrice of the enhanced backend: it carries its source.
SourcedPrice(symbol, price, change, change_percent, source) ==
    [symbol |-> symbol, price |-> price, change |-> change,
     change_percent |-> change_percent, source |-> source]

\* What get_alpha_vantage_price and get_yahoo_finance_price can return:
\* None, or a MarketPrice of their source.
ProviderResults(source) ==
    {NoData} \cup
    {LET q == MarketPrice(TRACKED_SYMBOLS[1], h, 0)
     IN  SourcedPrice(q.symbol, q.price, q.change, q.change_percent, source) :
        h \in {x \in Histories : Len(x) >= 2}}

\* random.uniform(-0.05, 0.05), in percent.
Variations == {-5, 0, 5}

\* base_prices of get_simulated_price, in cents.
base_price(symbol) ==
    IF symbol = "AAPL" THEN 18230 ELSE IF symbol = "MSFT" THEN 33180 ELSE 10000

get_simulated_price(symbol, variation) ==
    LET current_price == RoundDiv(base_price(symbol) * (100 + variation), 100)
        change == current_price - base_price(symbol)
    IN  SourcedPrice(symbol, current_price, change,
                     RoundDiv(change * 10000, base_price(symbol)), "simulated")

\* get_market_price: Alpha Vantage, then Yahoo Finance, then simulated.
get_market_price(symbol, alpha, yahoo, variation) ==
    IF alpha # NoData THEN alpha
    ELSE IF yahoo # NoData THEN yahoo
    ELSE get_simulated_price(symbol, variation)

GetMarketPrice(alpha, yahoo, variation) ==
    /\ calc = NoCalc
    /\ calc' = [fn |-> "get_market_price",
                input |-> [alpha |-> alpha, yahoo |-> yahoo,
                           variation |-> variation],
                out |-> get_market_price(TRACKED_SYMBOLS[1], alpha, yahoo,
                                         variation)]
    /\ UNCHANGED <<cacheVars, registryVars, upd, chan, inbox, stream_tasks>>

\* The computations of the indicator and decision code, each applied once
\* to every input.
EngineNext ==
    \/ \E a \in Analyses : MakeTradingDecision(a)
    \/ \E q \in SignalQuotes, tech \in TechInputs : GenerateSignal(q, tech)
    \/ \E impl \in {"list", "pandas"}, prices \in CloseSeries :
           CalculateRsi(impl, prices)
    \/ \E raises \in BOOLEAN, closes \in CloseSeries :
           GetTechnicalIndicators(raises, closes)
    \/ \E alpha \in ProviderResults("alpha_vantage"),
          yahoo \in ProviderResults("yahoo_finance"), v \in Variations :
           GetMarketPrice(alpha, yahoo, v)

EngineSpec == Init /\ [][EngineNext]_vars

\* ======================================================== price cache claims
Fetched(r) == req[r].outcome \in {"ok", "exc", "short"}
Failed(r) == req[r].outcome \in {"exc", "short"}

\* C1: callers that call the cache get for one symbol concurrently, while no
\* live entry exists, all receive the same result and cause exactly one
\* upstream fetch between them.
C1_SingleFlight ==
    \A r \in Requests : \A q \in req[r].peers :
        (req[r].pc = "done" /\ req[q].pc = "done")
            => /\ req[r].result = req[q].result
               /\ Cardinality({x \in {r, q} : Fetched(x)}) = 1

\* C2: a get that finds an entry younger than the TTL returns that entry's
\* Quote unchanged, fetches nothing and leaves the cache alone; a get that
\* finds no entry, or one whose age has reached the TTL, issues an upstream
\* fetch and does not return the old entry.
C2_TtlHit ==
    [][\A r \in Requests :
          (req[r].pc = "pending" /\ req'[r].pc = "done")
              => LET s == req[r].symbol
                     e == price_cache[s]
                 IN  IF e # NoEntry /\ now - e.timestamp < CACHE_DURATION
                     THEN /\ req'[r].result = e.data
                          /\ fetchCount' = fetchCount
                          /\ price_cache' = price_cache
                     ELSE /\ fetchCount'[s] = fetchCount[s] + 1
                          /\ e # NoEntry => req'[r].result # e.data]_vars

\* C2 witness: a get served from an entry stored earlier, after exactly one
\* upstream fetch for the symbol.
C2_Witness ==
    \E r \in Requests :
        /\ req[r].pc = "done" /\ req[r].outcome = "hit"
        /\ req[r].seen # NoEntry /\ now > req[r].seen.timestamp
        /\ req[r].result = req[r].seen.data
        /\ fetchCount[req[r].symbol] = 1

\* C3: when the upstream fetch fails, get returns the expired entry's Quote
\* annotated stale if such an entry exists, and NoData otherwise.
C3_StaleOnFailure ==
    \A r \in Requests :
        (req[r].pc = "done" /\ Failed(r))
            => IF req[r].seen # NoEntry
               THEN req[r].result = [quote |-> req[r].seen.data, stale |-> TRUE]
               ELSE req[r].result = NoData

\* A get of request r completes in this step.
GetStep(r) == req[r].pc = "pending" /\ req'[r].pc = "done"

\* C21: a get for one symbol leaves the entry and the fetch count of every
\* other symbol as they were, returns nothing of another symbol, and is
\* served from its own live entry whatever the state of the others.
C21_SymbolIndependence ==
    [][\A r \in Requests :
          GetStep(r)
              => LET s == req[r].symbol
                 IN  /\ \A x \in Symbols \ {s} :
                            /\ price_cache'[x] = price_cache[x]
                            /\ fetchCount'[x] = fetchCount[x]
                     /\ req'[r].result # NoData => req'[r].result.symbol = s
                     /\ cache_is_live(price_cache, now, s)
                            => req'[r].result = price_cache[s].data]_vars

\* C21 witness: a get for one symbol was served while, at the same time, a
\* get for the other symbol had failed and left no entry, and the caller
\* still recorded an entry of the served symbol.
C21_Witness ==
    \E r, q \in Requests :
        /\ req[r].pc = "done" /\ req[q].pc = "done"
        /\ req[r].symbol # req[q].symbol
        /\ req[r].outcome \in {"hit", "ok"}
        /\ Failed(q) /\ price_cache[req[q].symbol] = NoEntry
        /\ price_cache[req[r].symbol] # NoEntry

\* A quote q agrees with the closes cur and prev (thousandths of a dollar)
\* within 0.01: price, change = price - previous close, and change_percent
\* = change / previous close * 100.
QuoteAgrees(q, cur, prev) ==
    /\ Abs(10 * q.price - cur) <= 10
    /\ Abs(10 * q.change - (10 * q.price - prev)) <= 10
    /\ Abs(q.change_percent * prev - 10000 * (cur - prev)) <= prev

\* C22: every cached quote agrees with the two closes of one upstream
\* history, is stored under its own symbol, and carries the time of its
\* store: an entry is one fetch's result as a whole.
C22_QuoteArithmetic ==
    \A s \in Symbols :
        price_cache[s] # NoEntry
            => LET e == price_cache[s]
               IN  /\ e.data.symbol = s
                   /\ e.data.timestamp = e.timestamp
                   /\ \E h \in Histories :
                          /\ Len(h) >= 2
                          /\ QuoteAgrees(e.data, h[Len(h)], h[Len(h) - 1])

\* C22 witness: the quote for closes 175.50 and 182.30 (change 6.80, 3.87
\* percent) replaced an earlier entry of the symbol.
C22_Witness ==
    \E s \in Symbols :
        /\ price_cache[s] # NoEntry
        /\ price_cache[s].timestamp > 0
        /\ fetchCount[s] = 2
        /\ price_cache[s].data.price = 18230
        /\ price_cache[s].data.change = 680
        /\ price_cache[s].data.change_percent = 387

\* C28: a get whose upstream fetch raised or returned too little history
\* leaves the whole cache as it was.
C28_FailedFetchFrame ==
    [][\A r \in Requests :
          (GetStep(r) /\ req'[r].outcome \in {"exc", "short"})
              => price_cache' = price_cache]_vars

\* C28 witness: a failed get found an expired entry, which is still there.
C28_Witness ==
    \E r \in Requests :
        /\ req[r].pc = "done" /\ Failed(r)
        /\ req[r].seen # NoEntry
        /\ price_cache[req[r].symbol] = req[r].seen

\* ========================================================= broadcast claims
\* The connections a publish wrote to successfully.
Delivered(t) == Range(bc[t].sent) \ Range(bc[t].dead)

\* C4: when a publish in which a write failed has returned, every other
\* subscriber that was registered at its start (and is still registered and
\* reachable) has received the event, and the failing subscribers are no
\* longer registered.
C4_FanOutIsolation ==
    \A t \in Publishers :
        (bc[t].pc = "returned" /\ bc[t].dead # <<>>)
            => /\ \A c \in bc[t].snapshot \cap Range(active_connections) :
                      peer[c] = "ok" => c \in Delivered(t)
               /\ Range(bc[t].dead) \cap Range(active_connections) = {}

\* Subscriber c of publish t's snapshot is registered and reachable and has
\* not been written to yet, while t is suspended in a write.
Unserved(t, c) ==
    /\ bc[t].pc = "send"
    /\ c \in bc[t].snapshot \cap Range(active_connections)
    /\ peer[c] = "ok"
    /\ c \notin Range(bc[t].sent)

\* C5: a subscriber whose write never completes does not block the others:
\* whenever a publish is suspended in a write to a stalled subscriber, every
\* other subscriber still waiting for that event is eventually written to
\* (or leaves).
C5_SlowSubscriber ==
    \A t \in Publishers : \A c \in Conns :
        (Unserved(t, c) /\ peer[bc[t].cur] = "stalled") ~> ~Unserved(t, c)

\* C6: when a publish has returned, every subscriber that was registered
\* when it started and is still registered was sent the event, whatever
\* connects and disconnects ran while the publish was suspended.
C6_SnapshotFanOut ==
    \A t \in Publishers :
        bc[t].pc = "returned"
            => \A c \in bc[t].snapshot :
                   c \in Range(active_connections) => c \in Range(bc[t].sent)

\* C7: within one publish call no subscriber is sent the event twice.
C7_AtMostOnce ==
    \A t \in Publishers :
        \A i, j \in 1..Len(bc[t].sent) :
            i # j => bc[t].sent[i] # bc[t].sent[j]

\* C7 witness: a publish that overlapped a disconnect and a connect (a
\* subscriber of its snapshot is gone from the registry, and a subscriber
\* that joined later was written to) has returned after two or more writes.
C7_Witness ==
    \E t \in Publishers :
        /\ bc[t].pc = "returned"
        /\ Len(bc[t].sent) >= 2
        /\ \E c \in Range(bc[t].sent) : c \notin bc[t].snapshot
        /\ \E c \in bc[t].snapshot : c \notin Range(active_connections)

\* ========================================================= poll loop claims
\* C8: once the for loop of a price cycle is over, every symbol of the cycle
\* was processed, each either failed (and was skipped) or is in
\* price_updates; and if any symbol has a quote, the price_update event with
\* exactly the symbols that did not fail was broadcast first.
C8_FailureIsolation ==
    LET st == upd["price"]
        ok == Range(PriceSymbols) \ st.failed
    IN  st.pc \in {"bcast_price", "bcast_portfolio"}
            => /\ st.idx = Len(PriceSymbols)
               /\ DOMAIN st.data = ok
               /\ ok # {} => st.published[1] = "price_update"
               /\ ok = {} => st.published = <<"portfolio_update">>
               /\ st.pc = "bcast_price"
                     => bc["price"].msg = [type |-> "price_update", data |-> st.data]

\* C8 witness: a cycle in which one symbol failed, the other was published
\* to a subscriber, and the cycle went on to the portfolio update.
C8_Witness ==
    LET st == upd["price"]
    IN  /\ st.pc = "bcast_portfolio"
        /\ st.failed # {} /\ DOMAIN st.data # {}
        /\ st.published = <<"price_update", "portfolio_update">>

\* C9: an error in a cycle never ends a polling loop: once the cycle has
\* left its fetch loop with an error recorded, the loop eventually starts
\* another cycle.
C9_LoopContinues ==
    \A u \in Updaters :
        (upd[u].erred /\ upd[u].pc # "fetch") ~> ~upd[u].erred

\* ====================================================== decision claims
\* C10: every signal whose buy score equals its sell score has action hold.
C10_TieIsHold ==
    \A i \in 1..Len(upd["signal"].data) :
        LET signal == upd["signal"].data[i]
        IN  (signal.scored /\ signal.buy_signals = signal.sell_signals)
                => signal.action = "hold"

\* C11: the action is buy exactly when the buy score is the larger one and
\* the confidence is at least 0.5, sell exactly when the sell score is the
\* larger one and the confidence is at least 0.5, and hold otherwise.
C11_DecisionRule ==
    (calc.fn \in {"make_trading_decision", "generate_ai_signal"}
        /\ calc.out.scored)
        => LET d == calc.out
               sure == 2 * d.confidence >= calc.unit
           IN  /\ d.action = "buy" <=> (d.buy_signals > d.sell_signals /\ sure)
               /\ d.action = "sell" <=> (d.sell_signals > d.buy_signals /\ sure)
               /\ d.action \in {"buy", "sell", "hold"}

\* C12: the confidence of every signal lies between 0 and 1.
C12_ConfidenceBounds ==
    calc.fn \in {"make_trading_decision", "generate_ai_signal"}
        => (0 <= calc.out.confidence /\ calc.out.confidence <= calc.unit)

\* C12 witness: all five factors matched under high volatility, so that the
\* base confidence 1.0 was scaled to 0.7.
C12_Witness ==
    /\ calc.fn = "make_trading_decision"
    /\ confidence_factors(calc.input) = 1000
    /\ calc.input.volatility > 40
    /\ calc.out.confidence = 700

\* The points the factors other than MACD give to each side in
\* TradingAI's scoring: RSI oversold or overbought 2, trend 1, news 1.
OtherBuyPoints(a) ==
    (IF a.rsi = "oversold" THEN 2 ELSE 0)
    + (IF a.trend = "bullish" THEN 1 ELSE 0)
    + (IF news_overall(a.news_score) = "positive" THEN 1 ELSE 0)

OtherSellPoints(a) ==
    (IF a.rsi = "overbought" THEN 2 ELSE 0)
    + (IF a.trend = "bearish" THEN 1 ELSE 0)
    + (IF news_overall(a.news_score) = "negative" THEN 1 ELSE 0)

\* C23: the MACD factor contributes exactly one point to every decision:
\* one point to the buy score when MACD is above its signal line, and
\* otherwise one point to the sell score.
C23_MacdOnePoint ==
    calc.fn = "make_trading_decision"
        => LET a == calc.input
               buy == calc.out.buy_signals - OtherBuyPoints(a)
               sell == calc.out.sell_signals - OtherSellPoints(a)
           IN  /\ buy + sell = 1
               /\ a.macd_bullish => buy = 1
               /\ ~a.macd_bullish => sell = 1

\* C24: two decision inputs that differ only in the volume-spike flag get
\* the same buy score, sell score, confidence and action.
C24_VolumeSpikeTagOnly ==
    calc.fn = "make_trading_decision"
        => LET b == [calc.input EXCEPT !.volume_spike = ~@]
           IN  \A confidence \in calculate_confidence(b) :
                  LET d == make_decision(b, confidence)
                  IN  /\ confidence = calc.out.confidence
                      /\ d.action = calc.out.action
                      /\ d.buy_signals = calc.out.buy_signals
                      /\ d.sell_signals = calc.out.sell_signals

\* C25: the confidence is the sum of the matched factor weights clamped to
\* [0, 1], times 0.7 when the volatility is above 40, times 0.85 when it is
\* above 25 and at most 40, and unscaled otherwise; the returned value is
\* that product to three decimals (within 0.0005 of it).
C25_ConfidenceTiers ==
    calc.fn = "make_trading_decision"
        => LET a == calc.input
               base == Min(Max(confidence_factors(a), 0), 1000)
               confidence == calc.out.confidence
           IN  /\ a.volatility > 40 => Abs(10 * confidence - 7 * base) <= 5
               /\ (a.volatility > 25 /\ a.volatility <= 40)
                     => Abs(100 * confidence - 85 * base) <= 50
               /\ a.volatility <= 25 => confidence = base

\* C25 witness: all five factors matched at volatility exactly 40, the
\* upper limit of the middle tier, so that 1.0 was scaled to 0.85.
C25_Witness ==
    /\ calc.fn = "make_trading_decision"
    /\ confidence_factors(calc.input) = 1000
    /\ calc.input.volatility = 40
    /\ calc.out.confidence = 850

C27_SingleStream == Len(stream_tasks) <= 1

\* The broadcasts that return in this step, and the endpoints that run
\* their disconnect in this step.
Returning == {t \in Publishers : bc[t].pc = "send" /\ bc'[t].pc = "returned"}
Leaving == {c \in Conns : endpoint[c] = "receive" /\ endpoint'[c] = "done"}

\* C30: eviction is idempotent and exact when broadcasts overlap or race
\* with a client's disconnect: a returning broadcast leaves none of the
\* connections it saw fail in the registry, also when another broadcast or
\* the endpoint removed one of them first; a step removes only connections
\* that the returning broadcast saw fail or whose endpoint disconnects, all
\* of them closed by their client; the connections that stay keep their
\* places, and no connection is registered twice.
C30_EvictionExact ==
    [][LET removed == Range(active_connections) \ Range(active_connections')
           stay(c) == c \in Range(active_connections')
       IN  /\ \A t \in Returning :
                  Range(bc'[t].dead) \cap Range(active_connections') = {}
           /\ removed \subseteq
                  Leaving \cup UNION {Range(bc'[t].dead) : t \in Returning}
           /\ \A c \in removed : peer[c] = "gone"
           /\ Len(active_connections') <= Len(active_connections)
                 => active_connections' = SelectSeq(active_connections, stay)
           /\ \A i, j \in 1..Len(active_connections') :
                  active_connections'[i] = active_connections'[j] => i = j
      ]_vars

\* C30 witness: a broadcast has returned after evicting a connection that
\* another broadcast, still under way, also saw fail and whose endpoint has
\* run its own disconnect, and other connections are still registered.
C30_Witness ==
    \E c \in Conns :
        /\ bc["t1"].pc = "returned" /\ c \in Range(bc["t1"].dead)
        /\ bc["t2"].pc = "send" /\ c \in Range(bc["t2"].dead)
        /\ endpoint[c] = "done"
        /\ c \notin Range(active_connections)
        /\ active_connections # <<>>

\* The writes a broadcast has begun so far.
Writes(b) == Len(b.sent)

\* C29: a polling loop does no work for an empty audience: in a step it
\* takes while no connection is registered it issues no upstream fetch and
\* begins no write to a client, and a loop that wakes up then goes back to
\* sleep.
C29_NoWorkForNobody ==
    [][active_connections = <<>>
         => /\ (upd' # upd \/ stream_tasks' # stream_tasks)
                  => fetchCount' = fetchCount
            /\ \A u \in Updaters :
                  /\ Writes(bc'[u]) <= Writes(bc[u])
                  /\ upd[u].pc = "sleep" => upd'[u].pc = "sleep"
            /\ \A k \in 1..Len(stream_tasks) :
                  /\ Writes(stream_tasks'[k].b) <= Writes(stream_tasks[k].b)
                  /\ stream_tasks[k].pc = "wait"
                        => stream_tasks'[k].pc \in {"wait", "run"}
      ]_vars

\* C15: no signal is produced or published for a symbol whose quote was
\* unavailable.
C15_NoFabricatedSignal ==
    LET st == upd["signal"]
    IN  \A i \in 1..Len(st.data) : st.data[i].symbol \notin st.failed

\* ===================================================== indicator claims
\* C13: an RSI computed on a window of at least the period lies in
\* [0, 100] and equals 100 exactly when the average loss of the window is
\* zero.
C13_RsiRange ==
    (calc.fn = "calculate_rsi" /\ Len(calc.input) >= RsiPeriod)
        => LET v == calc.out
           IN  /\ v.kind = "num"
               /\ 0 <= v.num /\ v.num <= 100 * v.den
               /\ v.num = 100 * v.den <=> calc.avg_loss = 0

\* C14: on a history shorter than the rows the indicators need, the
\* indicator computation returns the insufficient-history result.
C14_InsufficientHistory ==
    (calc.fn = "get_technical_indicators"
        /\ Len(calc.input.closes) < MIN_ROWS)
        => calc.out = InsufficientHistory

\* C16: when neither provider has a price for the symbol, no quote for it
\* is returned.
C16_NoFabricatedQuote ==
    (calc.fn = "get_market_price"
        /\ calc.input.alpha = NoData /\ calc.input.yahoo = NoData)
        => calc.out = NoData

\* ================================================ client protocol claims
\* The payloads of connection c that the endpoint has handled.
Handled(c) == {chan[c].log[i] : i \in 1..Len(chan[c].log)}

\* C17: every subscribe payload handled was answered by
\* subscription_confirmed with the same symbols, and every ping by pong.
C17_ProtocolReplies ==
    \A c \in Conns : \A e \in Handled(c) :
        (e.payload.json /\ e.payload.object)
            => /\ e.payload.type = "subscribe"
                     => e.reply = [type |-> "subscription_confirmed",
                                   symbols |-> e.payload.symbols]
               /\ e.payload.type = "ping" => e.reply = [type |-> "pong"]

\* C17 witness: one client had a subscribe for two symbols and a ping
\* answered, and both replies were written.
C17_Witness ==
    \E c \in Conns :
        /\ \E e \in Handled(c) :
              e.payload.type = "subscribe" /\ Len(e.payload.symbols) = 2
                  /\ ~e.failed
        /\ \E e \in Handled(c) : e.payload.type = "ping" /\ ~e.failed

\* C18: every payload that is not JSON, not an object or of an unknown
\* type was answered by an error message, and the client that sent it is
\* still registered and served while it stays connected.
C18_ErrorReplies ==
    \A c \in Conns :
        /\ \A e \in Handled(c) :
               (~e.payload.json \/ ~e.payload.object
                    \/ e.payload.type \notin {"subscribe", "ping"})
                   => e.reply.type = "error"
        /\ (Handled(c) # {} /\ peer[c] = "ok")
               => (c \in Range(active_connections) /\ endpoint[c] # "done")

\* C20: a subscriber a write to which has failed is not registered once the
\* writing call has returned, whether the write was made by a publish or
\* was a direct reply.
C20_FailedWriteEvicts ==
    /\ \A t \in Publishers :
           bc[t].pc = "returned"
               => Range(bc[t].dead) \cap Range(active_connections) = {}
    /\ \A c \in Conns :
           (endpoint[c] = "receive" /\ \E e \in Handled(c) : e.failed)
               => c \notin Range(active_connections)

\* ========================================================= ordering claims
\* C19: what a subscriber has got of the price cycle in progress is in the
\* order the loop emitted it: price_update is never preceded by
\* portfolio_update, and no event of the cycle arrives twice.
C19_CycleOrder ==
    \A c \in Conns :
        /\ \A i, j \in 1..Len(inbox[c]) :
               i < j => ~(inbox[c][i] = "portfolio_update"
                            /\ inbox[c][j] = "price_update")
        /\ \A i, j \in 1..Len(inbox[c]) : i # j => inbox[c][i] # inbox[c][j]
        /\ Range(inbox[c]) \subseteq Range(upd["price"].published)

\* C19 witness: a subscriber got both events of a price cycle while the
\* signal loop and a trade handler were inside their own broadcasts.
C19_Witness ==
    \E c \in Conns :
        /\ inbox[c] = <<"price_update", "portfolio_update">>
        /\ bc["signal"].pc = "send"
        /\ bc["t1"].pc = "send"

====
